---- MODULE Spec2Model ----
(***************************************************************************)
(* Model of cleanup-files/update_politicians_images.py: a batch script     *)
(* that loads a JSON list of politician records, indexes the .png files of *)
(* an image directory by a normalized key, assigns every record the file   *)
(* found by name, alias or substring fallback, and writes the list back.   *)
(*                                                                         *)
(* Text is modelled as a sequence of one-character strings, so that the    *)
(* character-level functions (re.sub, str.replace, re.split, splitext,     *)
(* lower, endswith, the substring test) are computed as the code does.     *)
(***************************************************************************)
EXTENDS Integers, Sequences, FiniteSets, TLC

\* ------------------------------------------------------------------ bounds
MaxRecords == 2
MaxFiles == 2

\* ------------------------------------------------------------ text helpers
\* The character class [-' ] of the three regular expressions.
Separators == {"-", "'", " "}

\* re.sub(r"[-' ]", '_', s)
ReSub(s) == [i \in 1..Len(s) |-> IF s[i] \in Separators THEN "_" ELSE s[i]]

\* s.replace('"', '')
RemoveQuotes(s) == SelectSeq(s, LAMBDA ch : ch # "\"")

\* normalize(s): strip double quotes, then the substitution.
Normalize(s) == ReSub(RemoveQuotes(s))

\* str.lower() on the letters that occur in the modelled file names.
LowerChar(ch) ==
  CASE ch = "P" -> "p"
    [] ch = "N" -> "n"
    [] ch = "G" -> "g"
    [] OTHER -> ch

Lower(s) == [i \in 1..Len(s) |-> LowerChar(s[i])]

EndsWith(s, suf) ==
  /\ Len(s) >= Len(suf)
  /\ SubSeq(s, Len(s) - Len(suf) + 1, Len(s)) = suf

\* f.lower().endswith('.png')
IsPng(f) == EndsWith(Lower(f), <<".", "p", "n", "g">>)

\* os.path.splitext(f)[0]: cut at the last dot, unless only dots precede it.
LastDot(f) ==
  LET dots == {i \in 1..Len(f) : f[i] = "."}
  IN IF dots = {} THEN 0 ELSE CHOOSE i \in dots : \A j \in dots : j <= i

SplitextStem(f) ==
  LET d == LastDot(f)
  IN IF d > 0 /\ (\E i \in 1..(d - 1) : f[i] # ".")
       THEN SubSeq(f, 1, d - 1)
       ELSE f

\* p in key (substring test of Python's `in` on strings)
IsSubstring(p, key) ==
  \E i \in 0..(Len(key) - Len(p)) : SubSeq(key, i + 1, i + Len(p)) = p

\* re.split(r"[-' ]", name): the pieces between separators, empty ones kept.
RECURSIVE ReSplitAcc(_, _, _)
ReSplitAcc(s, cur, acc) ==
  IF s = <<>> THEN Append(acc, cur)
  ELSE IF Head(s) \in Separators
         THEN ReSplitAcc(Tail(s), <<>>, Append(acc, cur))
         ELSE ReSplitAcc(Tail(s), Append(cur, Head(s)), acc)

ReSplit(s) == ReSplitAcc(s, <<>>, <<>>)

\* parts = [p for p in re.split(...) if p]
NameParts(name) == SelectSeq(ReSplit(name), LAMBDA p : Len(p) > 0)

\* ------------------------------------------------------------- image index
\* norm_map is a dict: insertion-ordered, a repeated key keeps its position
\* and takes the later value.  Modelled as a sequence of (key, file) items.
FileKey(f) == ReSub(SplitextStem(f))

HasKey(nm, k) == \E i \in 1..Len(nm) : nm[i].key = k

Lookup(nm, k) == nm[CHOOSE i \in 1..Len(nm) : nm[i].key = k].file

\* Mutant: a repeated key keeps its first value.
DictPut_KeepFirst(nm, k, v) ==
  IF HasKey(nm, k) THEN nm ELSE Append(nm, [key |-> k, file |-> v])

DictPut(nm, k, v) ==
  IF HasKey(nm, k)
    THEN [i \in 1..Len(nm) |-> IF nm[i].key = k THEN [key |-> k, file |-> v] ELSE nm[i]]
    ELSE Append(nm, [key |-> k, file |-> v])

\* image_files = [f for f in os.listdir(images_dir) if f.lower().endswith('.png')]
ImageFiles(ls) == SelectSeq(ls, IsPng)

RECURSIVE BuildFrom(_, _)
BuildFrom(files, nm) ==
  IF files = <<>> THEN nm
  ELSE BuildFrom(Tail(files), DictPut(nm, FileKey(Head(files)), Head(files)))

\* norm_map = {key(f): f for f in image_files}
BuildNormMap(files) == BuildFrom(files, <<>>)

\* ---------------------------------------------------------------- matcher
\* img is None / img holds a file name
NoImg == [found |-> FALSE, file |-> <<>>]

Found(f) == [found |-> TRUE, file |-> f]

\* `if img:` -- None and the empty string are both falsy
Truthy(img) == img.found /\ Len(img.file) > 0

\* entry.get('name', '')
EntryName(e) == IF "name" \in DOMAIN e THEN e.name ELSE <<>>

\* entry.get('aliases', [])
EntryAliases(e) == IF "aliases" \in DOMAIN e THEN e.aliases ELSE <<>>

\* Mutant: the alias loop without its break: the last matching alias wins.
RECURSIVE AliasMatch_Last(_, _)
AliasMatch_Last(aliases, nm) ==
  IF aliases = <<>> THEN NoImg
  ELSE LET rest == AliasMatch_Last(Tail(aliases), nm)
       IN IF rest.found THEN rest
          ELSE IF HasKey(nm, Normalize(Head(aliases)))
                 THEN Found(Lookup(nm, Normalize(Head(aliases))))
                 ELSE NoImg

\* the alias loop: the first alias whose normalized form is a key, then break
RECURSIVE AliasMatch(_, _)
AliasMatch(aliases, nm) ==
  IF aliases = <<>> THEN NoImg
  ELSE IF HasKey(nm, Normalize(Head(aliases)))
         THEN Found(Lookup(nm, Normalize(Head(aliases))))
         ELSE AliasMatch(Tail(aliases), nm)

\* all(normalize(p) in key for p in parts)
AllPartsIn(parts, key) ==
  \A j \in 1..Len(parts) : IsSubstring(Normalize(parts[j]), key)

\* Mutant: the fallback loop without its break: the last fitting key wins.
FallbackMatch_Last(name, nm) ==
  LET parts == NameParts(name)
      hits == {i \in 1..Len(nm) : AllPartsIn(parts, nm[i].key)}
  IN IF hits = {} THEN NoImg
     ELSE Found(nm[CHOOSE i \in hits : \A j \in hits : i >= j].file)

\* Mutant: the fallback guarded by `if parts and all(...)`.
FallbackMatch_NonVacuous(name, nm) ==
  LET parts == NameParts(name)
      hits == {i \in 1..Len(nm) : Len(parts) > 0 /\ AllPartsIn(parts, nm[i].key)}
  IN IF hits = {} THEN NoImg
     ELSE Found(nm[CHOOSE i \in hits : \A j \in hits : i <= j].file)

\* the fallback loop over norm_map.items(): the first item whose key holds
\* every part, then break
FallbackMatch(name, nm) ==
  LET parts == NameParts(name)
      hits == {i \in 1..Len(nm) : AllPartsIn(parts, nm[i].key)}
  IN IF hits = {} THEN NoImg
     ELSE Found(nm[CHOOSE i \in hits : \A j \in hits : i <= j].file)

\* Mutant: the aliases are tried before the name.
FindImage_AliasFirst(e, nm) ==
  LET name == EntryName(e)
      norm_name == Normalize(name)
      a == AliasMatch(EntryAliases(e), nm)
      first == IF a.found
                 THEN [img |-> a, by |-> "alias"]
                 ELSE IF HasKey(nm, norm_name)
                        THEN [img |-> Found(Lookup(nm, norm_name)), by |-> "name"]
                        ELSE [img |-> NoImg, by |-> "none"]
  IN IF ~first.img.found
       THEN LET fb == FallbackMatch(name, nm)
            IN [img |-> fb, by |-> IF fb.found THEN "fallback" ELSE "none",
                fallbackRan |-> TRUE]
       ELSE [img |-> first.img, by |-> first.by, fallbackRan |-> FALSE]

\* The three stages for one entry.  `by` names the branch that produced img
\* and `fallbackRan` whether the body of `if img is None:` was executed.
FindImage(e, nm) ==
  LET name == EntryName(e)
      norm_name == Normalize(name)
      first == IF HasKey(nm, norm_name)
                 THEN [img |-> Found(Lookup(nm, norm_name)), by |-> "name"]
                 ELSE LET a == AliasMatch(EntryAliases(e), nm)
                      IN [img |-> a, by |-> IF a.found THEN "alias" ELSE "none"]
  IN IF ~first.img.found
       THEN LET fb == FallbackMatch(name, nm)
            IN [img |-> fb, by |-> IF fb.found THEN "fallback" ELSE "none",
                fallbackRan |-> TRUE]
       ELSE [img |-> first.img, by |-> first.by, fallbackRan |-> FALSE]

\* entry['image'] = img
SetImage(e, f) == ("image" :> f) @@ e

\* Mutant: count += 1 moved out of the `if img:` branch.
LoopBody_CountAlways(e, nm, c, o) ==
  LET r == FindImage(e, nm)
  IN IF Truthy(r.img)
       THEN [entry |-> SetImage(e, r.img.file), count |-> c + 1, out |-> o,
             by |-> r.by, fallbackRan |-> r.fallbackRan,
             set |-> TRUE, diag |-> FALSE]
       ELSE [entry |-> e, count |-> c + 1,
             out |-> Append(o, [kind |-> "nomatch", name |-> EntryName(e)]),
             by |-> r.by, fallbackRan |-> r.fallbackRan,
             set |-> FALSE, diag |-> TRUE]

\* Mutant: an entry that already has an image is skipped (`continue`).
LoopBody_SkipExisting(e, nm, c, o) ==
  LET r == FindImage(e, nm)
  IN IF "image" \in DOMAIN e
       THEN [entry |-> e, count |-> c, out |-> o,
             by |-> "none", fallbackRan |-> FALSE,
             set |-> FALSE, diag |-> FALSE]
       ELSE IF Truthy(r.img)
              THEN [entry |-> SetImage(e, r.img.file), count |-> c + 1, out |-> o,
                    by |-> r.by, fallbackRan |-> r.fallbackRan,
                    set |-> TRUE, diag |-> FALSE]
              ELSE [entry |-> e, count |-> c,
                    out |-> Append(o, [kind |-> "nomatch", name |-> EntryName(e)]),
                    by |-> r.by, fallbackRan |-> r.fallbackRan,
                    set |-> FALSE, diag |-> TRUE]

\* Mutant: entry['image'] = img outside the `if img:` branch, so that a miss
\* stores an empty image.
LoopBody_ClearOnMiss(e, nm, c, o) ==
  LET r == FindImage(e, nm)
  IN IF Truthy(r.img)
       THEN [entry |-> SetImage(e, r.img.file), count |-> c + 1, out |-> o,
             by |-> r.by, fallbackRan |-> r.fallbackRan,
             set |-> TRUE, diag |-> FALSE]
       ELSE [entry |-> SetImage(e, <<>>), count |-> c,
             out |-> Append(o, [kind |-> "nomatch", name |-> EntryName(e)]),
             by |-> r.by, fallbackRan |-> r.fallbackRan,
             set |-> FALSE, diag |-> TRUE]

\* The rest of the loop body, after the stages: on a truthy img the entry
\* gets the image and is counted, otherwise one line is printed.
\* `set` and `diag` record which of the two branches ran.
LoopBody(e, nm, c, o) ==
  LET r == FindImage(e, nm)
  IN IF Truthy(r.img)
       THEN [entry |-> SetImage(e, r.img.file), count |-> c + 1, out |-> o,
             by |-> r.by, fallbackRan |-> r.fallbackRan,
             set |-> TRUE, diag |-> FALSE]
       ELSE [entry |-> e, count |-> c,
             out |-> Append(o, [kind |-> "nomatch", name |-> EntryName(e)]),
             by |-> r.by, fallbackRan |-> r.fallbackRan,
             set |-> FALSE, diag |-> TRUE]

\* ----------------------------------------------------------------- inputs
\* File names of the image directory.
F_a_b == <<"a", "_", "b", ".", "p", "n", "g">>
F_aDb == <<"a", "-", "b", ".", "P", "N", "G">>
F_aQb == <<"a", "\"", "b", ".", "p", "n", "g">>
F_sep == <<"-", ".", "p", "n", "g">>
F_jpg == <<"b", "_", "a", ".", "j", "p", "g">>

FilePool == {F_a_b, F_aDb, F_aQb, F_sep, F_jpg}

\* An image value left in a record by an earlier edit of the JSON file.
OldImage == <<"o", ".", "p", "n", "g">>

\* Names and aliases.
N_a_b == <<"a", " ", "b">>
N_bQa == <<"b", " ", "\"", "a">>
N_aQb == <<"a", "\"", "b">>
N_sep == <<"-">>

RecordPool ==
  { [name |-> N_a_b],
    [name |-> N_a_b, aliases |-> <<N_sep>>, image |-> OldImage],
    [name |-> N_bQa, aliases |-> <<N_sep>>],
    [name |-> N_bQa, image |-> OldImage],
    [name |-> N_aQb, aliases |-> <<N_sep, N_a_b>>],
    [name |-> N_sep, aliases |-> <<>>],
    [aliases |-> <<N_a_b>>, image |-> OldImage] }

SeqsUpTo(S, n) == UNION {[1..k -> S] : k \in 0..n}

\* A directory holds each file name once; os.listdir returns them in any order.
Listings == {ls \in SeqsUpTo(FilePool, MaxFiles) :
               \A i, j \in 1..Len(ls) : i # j => ls[i] # ls[j]}

RecordLists == SeqsUpTo(RecordPool, MaxRecords)

\* ------------------------------------------------------------------ state
VARIABLES
  disk,        \* the JSON file: [status, content]
  dirExists,   \* whether images_dir exists
  listing,     \* what os.listdir(images_dir) returns
  pc,          \* position of the script
  data,        \* the loaded list
  image_files,
  norm_map,
  count,
  idx,         \* number of entries the for loop has finished
  out,         \* lines printed
  trace,       \* per finished entry: the branch taken
  writes,      \* times this run opened the JSON file for writing
  input,       \* the JSON file as this run found it
  prev         \* result of the previous run, if any

vars == <<disk, dirExists, listing, pc, data, image_files, norm_map, count,
          idx, out, trace, writes, input, prev>>

NoPrev == [has |-> FALSE, data |-> <<>>, count |-> 0]

Init ==
  /\ \/ /\ disk \in {[status |-> "ok", content |-> c] : c \in RecordLists}
        /\ dirExists = TRUE
        /\ listing \in Listings
     \/ /\ disk \in {[status |-> "ok", content |-> c] : c \in RecordLists}
        /\ dirExists = FALSE
        /\ listing = <<>>
     \/ /\ disk \in {[status |-> s, content |-> <<>>] : s \in {"missing", "malformed"}}
        /\ dirExists \in BOOLEAN
        /\ listing = <<>>
  /\ pc = "load"
  /\ data = <<>>
  /\ image_files = <<>>
  /\ norm_map = <<>>
  /\ count = 0
  /\ idx = 0
  /\ out = <<>>
  /\ trace = <<>>
  /\ writes = 0
  /\ input = disk
  /\ prev = NoPrev

\* Mutant: a missing or malformed file is read as an empty list.
LoadJson_Lenient ==
  /\ pc = "load"
  /\ data' = disk.content
  /\ pc' = "index"
  /\ UNCHANGED <<disk, dirExists, listing, image_files, norm_map, count, idx,
                 out, trace, writes, input, prev>>

\* with open(json_path, 'r') as f: data = json.load(f)
\* open raises on a missing file, json.load on malformed text; nothing catches.
LoadJson ==
  /\ pc = "load"
  /\ IF disk.status = "ok"
       THEN data' = disk.content /\ pc' = "index"
       ELSE data' = data /\ pc' = "error"
  /\ UNCHANGED <<disk, dirExists, listing, image_files, norm_map, count, idx,
                 out, trace, writes, input, prev>>

\* image_files = [...os.listdir(images_dir)...]; norm_map = {...}; count = 0
\* os.listdir raises on a missing directory.
BuildIndex ==
  /\ pc = "index"
  /\ IF dirExists
       THEN /\ image_files' = ImageFiles(listing)
            /\ norm_map' = BuildNormMap(ImageFiles(listing))
            /\ pc' = "loop"
            /\ count' = 0
       ELSE /\ UNCHANGED <<image_files, norm_map, count>>
            /\ pc' = "error"
  /\ UNCHANGED <<disk, dirExists, listing, data, idx, out, trace, writes,
                 input, prev>>

\* one iteration of `for entry in data:`
ProcessEntry ==
  /\ pc = "loop"
  /\ idx < Len(data)
  /\ LET r == LoopBody(data[idx + 1], norm_map, count, out)
     IN /\ data' = [data EXCEPT ![idx + 1] = r.entry]
        /\ count' = r.count
        /\ out' = r.out
        /\ trace' = Append(trace, [by |-> r.by, fallbackRan |-> r.fallbackRan,
                                   set |-> r.set, diag |-> r.diag])
  /\ idx' = idx + 1
  /\ UNCHANGED <<disk, dirExists, listing, pc, image_files, norm_map, writes,
                 input, prev>>

\* with open(json_path, 'w') as f: json.dump(data, f, ...)
WriteBack ==
  /\ pc = "loop"
  /\ idx = Len(data)
  /\ disk' = [status |-> "ok", content |-> data]
  /\ writes' = writes + 1
  /\ pc' = "summary"
  /\ UNCHANGED <<dirExists, listing, data, image_files, norm_map, count, idx,
                 out, trace, input, prev>>

\* print(f"Updated {count} entries")
PrintSummary ==
  /\ pc = "summary"
  /\ out' = Append(out, [kind |-> "summary", count |-> count])
  /\ pc' = "done"
  /\ UNCHANGED <<disk, dirExists, listing, data, image_files, norm_map, count,
                 idx, trace, writes, input, prev>>

\* The script is started again on the file it wrote, same directory.
Rerun ==
  /\ pc = "done"
  /\ prev' = [has |-> TRUE, data |-> data, count |-> count]
  /\ input' = disk
  /\ pc' = "load"
  /\ data' = <<>>
  /\ image_files' = <<>>
  /\ norm_map' = <<>>
  /\ count' = 0
  /\ idx' = 0
  /\ out' = <<>>
  /\ trace' = <<>>
  /\ writes' = 0
  /\ UNCHANGED <<disk, dirExists, listing>>

Next ==
  \/ LoadJson
  \/ BuildIndex
  \/ ProcessEntry
  \/ WriteBack
  \/ PrintSummary
  \/ Rerun

Spec == Init /\ [][Next]_vars

\* ----------------------------------------------------------------- claims
\* The entry has image f.
HasImage(e, f) == "image" \in DOMAIN e /\ e.image = f

\* The positions of the aliases of e whose normalized form is a key.
AliasHits(e, nm) ==
  {j \in 1..Len(EntryAliases(e)) : HasKey(nm, Normalize(EntryAliases(e)[j]))}

\* The positions of the keys that hold every normalized non-empty part of name.
FallbackHits(name, nm) ==
  LET pieces == ReSplit(name)
  IN {k \in 1..Len(nm) :
        \A j \in 1..Len(pieces) :
          Len(pieces[j]) > 0 => IsSubstring(Normalize(pieces[j]), nm[k].key)}

Least(S) == CHOOSE x \in S : \A y \in S : x <= y

C2_Original ==
  pc = "done" =>
    \A i \in 1..Len(data) :
      ~HasKey(norm_map, Normalize(EntryName(data[i]))) =>
        \A j \in AliasHits(data[i], norm_map) :
          HasImage(data[i], Lookup(norm_map, Normalize(EntryAliases(data[i])[j])))

\* C2 amended: after the run, a record whose normalized name is no key and
\* that has a matching alias has the file stored under its earliest matching
\* alias, in list order.
C2_AliasMatch ==
  pc = "done" =>
    \A i \in 1..Len(data) :
      (~HasKey(norm_map, Normalize(EntryName(data[i])))
        /\ AliasHits(data[i], norm_map) # {})
      => HasImage(data[i],
           Lookup(norm_map,
             Normalize(EntryAliases(data[i])[Least(AliasHits(data[i], norm_map))])))

\* A record matched by its first alias while its second alias names another file.
C2_Witness ==
  /\ pc = "done"
  /\ \E i \in 1..Len(data) :
       /\ trace[i].by = "alias"
       /\ \E j \in AliasHits(data[i], norm_map) :
            ~HasImage(data[i], Lookup(norm_map, Normalize(EntryAliases(data[i])[j])))

\* C3: the stages run in the order name, alias, fallback and the first that
\* succeeds decides: a name hit gives the file under the name's key; else an
\* alias hit gives the file of the earliest matching alias; the fallback is
\* executed exactly when the name and every alias fail.
C3_StageOrder ==
  pc = "done" =>
    \A i \in 1..Len(data) :
      LET e == data[i]
          nameHit == HasKey(norm_map, Normalize(EntryName(e)))
          hits == AliasHits(e, norm_map)
      IN /\ nameHit =>
              /\ trace[i].by = "name"
              /\ HasImage(e, Lookup(norm_map, Normalize(EntryName(e))))
         /\ (~nameHit /\ hits # {}) =>
              /\ trace[i].by = "alias"
              /\ HasImage(e, Lookup(norm_map, Normalize(EntryAliases(e)[Least(hits)])))
         /\ trace[i].fallbackRan <=> (~nameHit /\ hits = {})
         /\ trace[i].by = "fallback" => trace[i].fallbackRan

\* A record matched by name although one of its aliases names another file.
C3_Witness ==
  /\ pc = "done"
  /\ \E i \in 1..Len(data) :
       /\ trace[i].by = "name"
       /\ \E j \in AliasHits(data[i], norm_map) :
            ~HasImage(data[i], Lookup(norm_map, Normalize(EntryAliases(data[i])[j])))

\* C4: at the end the printed count is the number of records whose image was
\* assigned in this run; every record was either counted or diagnosed, never
\* both, so count plus diagnostics is the number of records.
C4_MatchedCount ==
  pc = "done" =>
    LET assigned == {i \in 1..Len(trace) : trace[i].set}
        diags == SelectSeq(out, LAMBDA l : l.kind = "nomatch")
    IN /\ Len(trace) = Len(data)
       /\ out[Len(out)] = [kind |-> "summary", count |-> Cardinality(assigned)]
       /\ count = Cardinality(assigned)
       /\ \A i \in 1..Len(data) : trace[i].set # trace[i].diag
       /\ Len(diags) = Cardinality({i \in 1..Len(trace) : trace[i].diag})
       /\ count + Len(diags) = Len(data)

\* A finished run with a counted and a diagnosed record.
C4_Witness ==
  /\ pc = "done"
  /\ \E i, j \in 1..Len(trace) : trace[i].set /\ trace[j].diag

\* C5: a run on the output of the previous run, with the same listing, ends
\* with the same record list and the same count.
C5_Idempotent ==
  (pc = "done" /\ prev.has) => (data = prev.data /\ count = prev.count)

\* A second run that matched a record and left another unmatched.
C5_Witness ==
  /\ pc = "done"
  /\ prev.has
  /\ \E i, j \in 1..Len(trace) : trace[i].set /\ trace[j].diag

\* C6 as stated: every key of the image index is normalize(stem of its file),
\* with the normalize that is applied to names and aliases.
C6_UniformKeys ==
  \A k \in 1..Len(norm_map) :
    norm_map[k].key = Normalize(SplitextStem(norm_map[k].file))

\* C7: a record no stage matched keeps its image field as loaded (absent or
\* present); every record keeps its name and aliases fields and its position.
C7_Frame ==
  pc = "done" =>
    /\ Len(data) = Len(input.content)
    /\ \A i \in 1..Len(data) :
         LET e == data[i]
             was == input.content[i]
         IN /\ \A f \in {"name", "aliases"} :
                 /\ (f \in DOMAIN e) <=> (f \in DOMAIN was)
                 /\ f \in DOMAIN e => e[f] = was[f]
            /\ DOMAIN e \subseteq DOMAIN was \cup {"image"}
            /\ trace[i].by = "none" => e = was

\* An unmatched record that came with an image and still has it.
C7_Witness ==
  /\ pc = "done"
  /\ \E i \in 1..Len(data) :
       /\ trace[i].by = "none"
       /\ "image" \in DOMAIN input.content[i]
       /\ data[i] = input.content[i]

\* C8: with a missing or malformed file or a missing directory the script
\* ends in error before any record is processed and never writes; otherwise
\* it never errs, processes every record and writes the file once.
C8_ErrorHandling ==
  /\ (disk.status # "ok" \/ ~dirExists) =>
       /\ pc \in {"load", "index", "error"}
       /\ trace = <<>> /\ idx = 0 /\ writes = 0
       /\ disk = input
  /\ pc = "error" => (disk.status # "ok" \/ ~dirExists)
  /\ pc = "loop" => writes = 0
  /\ pc \in {"summary", "done"} =>
       /\ writes = 1
       /\ Len(trace) = Len(data)
       /\ disk = [status |-> "ok", content |-> data]

\* The directory is missing: records were loaded, none processed, no write.
C8_Witness ==
  /\ pc = "error"
  /\ ~dirExists
  /\ Len(data) > 0

\* C9: when the name and every alias fail, the record gets the file of the
\* first key, in insertion order, that holds every normalized non-empty part
\* of the name, and is unmatched iff there is no such key; every assigned
\* image is a file of the listing whose lower-cased name ends in .png.
C9_Fallback ==
  pc = "done" =>
    \A i \in 1..Len(data) :
      LET e == data[i]
          fails == ~HasKey(norm_map, Normalize(EntryName(e)))
                     /\ AliasHits(e, norm_map) = {}
          hits == FallbackHits(EntryName(e), norm_map)
      IN /\ (fails /\ hits # {}) =>
              /\ trace[i].set
              /\ HasImage(e, norm_map[Least(hits)].file)
         /\ fails => (trace[i].diag <=> hits = {})
         /\ trace[i].set =>
              \E k \in 1..Len(listing) :
                /\ HasImage(e, listing[k])
                /\ EndsWith(Lower(listing[k]), <<".", "p", "n", "g">>)

\* A two-part name matched by the fallback where two keys fit.
C9_Witness ==
  /\ pc = "done"
  /\ \E i \in 1..Len(data) :
       /\ trace[i].by = "fallback"
       /\ Len(NameParts(EntryName(data[i]))) = 2
       /\ Cardinality(FallbackHits(EntryName(data[i]), norm_map)) = 2

\* C10 as stated: a record whose name is missing, empty or only separators
\* and none of whose aliases match is assigned the first file of a non-empty
\* index and counted, and is unmatched only when the index is empty.
C10_Original ==
  pc = "done" =>
    \A i \in 1..Len(data) :
      (NameParts(EntryName(data[i])) = <<>> /\ AliasHits(data[i], norm_map) = {})
      => /\ norm_map # <<>> =>
              (trace[i].set /\ HasImage(data[i], norm_map[1].file))
         /\ trace[i].diag => norm_map = <<>>

\* C10 amended: the same, for a record whose normalized name is itself no key
\* of the index.
C10_VacuousFallback ==
  pc = "done" =>
    \A i \in 1..Len(data) :
      (/\ NameParts(EntryName(data[i])) = <<>>
       /\ AliasHits(data[i], norm_map) = {}
       /\ ~HasKey(norm_map, Normalize(EntryName(data[i]))))
      => /\ norm_map # <<>> =>
              (trace[i].set /\ HasImage(data[i], norm_map[1].file))
         /\ trace[i].diag => norm_map = <<>>

\* A separator-only name given the first of two files by the fallback.
C10_Witness ==
  /\ pc = "done"
  /\ \E i \in 1..Len(data) :
       /\ "name" \in DOMAIN data[i]
       /\ Len(data[i].name) > 0
       /\ NameParts(data[i].name) = <<>>
       /\ trace[i].by = "fallback"
       /\ Len(norm_map) = 2
       /\ HasImage(data[i], norm_map[1].file)

====
